---- MODULE Spec2Model ----
(***************************************************************************)
(* Model of scripts/parseCsv.py: the row loop that turns the tourist       *)
(* facility CSV into the spot list, and the findNearbySpots function of    *)
(* the TypeScript module the script emits.                                 *)
(*                                                                         *)
(* Text is a sequence of Unicode code points, so that strip(), slicing,     *)
(* substring tests and float() are computed character by character; a      *)
(* float is an IEEE 754 double, kept as its sign, exponent and fraction.   *)
(***************************************************************************)
EXTENDS Integers, Sequences, FiniteSets, TLC

VARIABLES
    pc,           \* "loop": in the for loop; "done": output written; "crashed": uncaught exception
    n_read,       \* rows the csv reader has yielded so far
    row,          \* the loop variable: the row of the current (last) iteration
    spots,        \* the list of spot dicts
    spot_id,      \* the id counter
    KYOTO_SPOTS,  \* the array literal of the emitted module (<<>> until written)
    called,       \* whether findNearbySpots has been called
    currentLoc,   \* argument of the last call
    radiusKm,     \* argument of the last call, in metres
    result        \* array returned by the last call

vars == <<pc, n_read, row, spots, spot_id, KYOTO_SPOTS, called, currentLoc, radiusKm, result>>

(***************************************************************************)
(* Bounds of the model.                                                    *)
(***************************************************************************)
MaxRows == 2

(***************************************************************************)
(* Text helpers.                                                           *)
(***************************************************************************)
SetMin(S) == CHOOSE x \in S : \A y \in S : x <= y

SetMax(S) == CHOOSE x \in S : \A y \in S : x >= y

Repeat(c, n) == [i \in 1..n |-> c]

\* the code points c with chr(c).isspace()
Whitespace ==
    (9..13) \cup (28..32) \cup {133, 160, 5760} \cup (8192..8202)
        \cup {8232, 8233, 8239, 8287, 12288}

\* index of the first character at or after i that is not in ws (Len(s) + 1 if none)
RECURSIVE lstrip_from(_, _, _)
lstrip_from(s, i, ws) ==
    IF i > Len(s) \/ s[i] \notin ws THEN i ELSE lstrip_from(s, i + 1, ws)

\* index of the last character at or before i that is not in ws (0 if none)
RECURSIVE rstrip_to(_, _, _)
rstrip_to(s, i, ws) ==
    IF i = 0 \/ s[i] \notin ws THEN i ELSE rstrip_to(s, i - 1, ws)

\* s without the leading and trailing characters that are in ws
strip_set(s, ws) ==
    LET first == lstrip_from(s, 1, ws)
        last  == rstrip_to(s, Len(s), ws)
    IN  IF first > last THEN <<>> ELSE SubSeq(s, first, last)

\* str.strip(): drop leading and trailing whitespace
strip(s) == strip_set(s, Whitespace)

\* Python's `kw in s` on strings: kw occurs in s as a contiguous substring
str_in(kw, s) ==
    \E i \in 1..(Len(s) - Len(kw) + 1) : SubSeq(s, i, i + Len(kw) - 1) = kw

\* s[:n]
slice_to(s, n) == SubSeq(s, 1, IF Len(s) < n THEN Len(s) ELSE n)

DigitChars == <<48, 49, 50, 51, 52, 53, 54, 55, 56, 57>>

\* an ASCII digit and its value
IsDigit(c) == \E d \in 1..10 : DigitChars[d] = c

DigitVal(c) == (CHOOSE d \in 1..10 : DigitChars[d] = c) - 1

PlusSign == <<43>>[1]
MinusSign == <<45>>[1]
Point == <<46>>[1]
Underscore == <<95>>[1]
Space == <<32>>[1]
QuestionMark == <<63>>[1]

\* the number written by a sequence of digit values
RECURSIVE DigitsToNat(_)
DigitsToNat(ds) ==
    IF ds = <<>> THEN 0
    ELSE 10 * DigitsToNat(SubSeq(ds, 1, Len(ds) - 1)) + ds[Len(ds)]

\* str(n) for n >= 0, as used by the f-string 'spot-{spot_id}'
RECURSIVE int_to_str(_)
int_to_str(n) ==
    IF n < 10 THEN <<DigitChars[n + 1]>>
    ELSE int_to_str(n \div 10) \o <<DigitChars[(n % 10) + 1]>>

(***************************************************************************)
(* float(str) of CPython.  The text is mapped to ASCII (Unicode decimal    *)
(* digits to '0'..'9', Unicode whitespace to ' '), underscores between     *)
(* digits are removed, ASCII whitespace is stripped, and what is left is   *)
(*   [sign] ("inf" | "infinity" | "nan")            in any letter case, or *)
(*   [sign] (digits [. [digits]] | . digits) [(e | E) [sign] digits]       *)
(* The value is an IEEE 754 binary64: the decimal number rounded to the    *)
(* nearest double, ties to even, as the fields sign (1 bit), exponent (11  *)
(* bits, 0..2047) and fraction (52 bits, most significant first).          *)
(* ok = FALSE is ValueError.                                               *)
(***************************************************************************)
\* the digit zero of every run of Unicode decimal digits (category Nd)
DecimalZeros ==
    { 48, 1632, 1776, 1984, 2406, 2534, 2662, 2790, 2918, 3046, 3174, 3302,
      3430, 3558, 3664, 3792, 3872, 4160, 4240, 6112, 6160, 6470, 6608,
      6784, 6800, 6992, 7088, 7232, 7248, 42528, 43216, 43264, 43472,
      43504, 43600, 44016, 65296, 66720, 68912, 69734, 69872, 69942, 70096,
      70384, 70736, 70864, 71248, 71360, 71472, 71904, 72016, 72784, 73040,
      73120, 92768, 92864, 93008, 120782, 120792, 120802, 120812, 120822,
      123200, 123632, 125264, 130032 }

IsDecimal(c) == \E z \in DecimalZeros : c \in z..(z + 9)

\* Py_UNICODE_TODECIMAL
ToDecimal(c) == c - (CHOOSE z \in DecimalZeros : c \in z..(z + 9))

\* one character of _PyUnicode_TransformDecimalAndSpaceToASCII
TransformChar(c) ==
    IF c < 127 THEN c
    ELSE IF c \in Whitespace THEN Space
    ELSE IF IsDecimal(c) THEN DigitChars[ToDecimal(c) + 1]
    ELSE QuestionMark

\* _PyUnicode_TransformDecimalAndSpaceToASCII: an ASCII string is taken as it
\* is; otherwise the result ends with '?' at the first character that is
\* neither ASCII, whitespace nor a decimal digit
TransformDecimalAndSpaceToASCII(s) ==
    LET unknown == {i \in 1..Len(s) :
                       s[i] >= 127 /\ s[i] \notin Whitespace /\ ~IsDecimal(s[i])}
        last    == IF unknown = {} THEN Len(s) ELSE SetMin(unknown)
    IN  IF \A i \in 1..Len(s) : s[i] < 128 THEN s
        ELSE SubSeq([i \in 1..Len(s) |-> TransformChar(s[i])], 1, last)

\* _Py_string_to_number_with_underscores: an underscore is allowed only
\* between two digits
underscores_ok(t) ==
    /\ \A i \in 1..Len(t) :
          /\ t[i] = Underscore => (i > 1 /\ IsDigit(t[i - 1]))
          /\ (t[i] # Underscore /\ i > 1 /\ t[i - 1] = Underscore) => IsDigit(t[i])
    /\ t # <<>> => t[Len(t)] # Underscore

NotUnderscore(c) == c # Underscore

without_underscores(t) == SelectSeq(t, NotUnderscore)

\* Py_ISSPACE: the whitespace float_from_string_inner strips
AsciiSpace == (9..13) \cup {Space}

\* Py_TOLOWER
lower(c) == IF c \in 65..90 THEN c + 32 ELSE c

\* the indices of the digits (or bits) of ds that are not 0
nonzero_at(ds) == {i \in 1..Len(ds) : ds[i] # 0}

nonzero(ds) == nonzero_at(ds) # {}

drop_leading_zeros(ds) ==
    IF nonzero(ds) THEN SubSeq(ds, SetMin(nonzero_at(ds)), Len(ds)) ELSE <<>>

drop_trailing_zeros(ds) ==
    IF nonzero(ds) THEN SubSeq(ds, 1, SetMax(nonzero_at(ds))) ELSE <<>>

\* The element of a one-element set.  In The({e(x) : x \in {d}}) the value
\* of d is computed once and x stands for that value in e.
The(S) == CHOOSE v \in S : TRUE

\* 2 * 0.F mod 1 on decimal digits: a digit carries into its left neighbour
\* exactly when it is 5 or more
twice(F) ==
    SubSeq([i \in 1..Len(F) |->
               (2 * F[i] + (IF i < Len(F) /\ F[i + 1] >= 5 THEN 1 ELSE 0)) % 10],
           1, Len(F))

\* I div 2 on decimal digits
half(I) ==
    SubSeq([i \in 1..Len(I) |->
               (I[i] + (IF i > 1 /\ I[i - 1] % 2 = 1 THEN 10 ELSE 0)) \div 2],
           1, Len(I))

\* the last n binary digits of the integer I, most significant first, and
\* I div 2^n; the digits are found half by half
RECURSIVE low_bits(_, _)
low_bits(I, n) ==
    IF n = 0 THEN [bits |-> <<>>, rest |-> I]
    ELSE IF n = 1
    THEN [bits |-> <<IF I = <<>> THEN 0 ELSE I[Len(I)] % 2>>, rest |-> half(I)]
    ELSE The({The({[bits |-> hi.bits \o lo.bits, rest |-> hi.rest] :
                   hi \in {low_bits(lo.rest, n - n \div 2)}}) :
              lo \in {low_bits(I, n \div 2)}})

\* the binary digits of the integer I (no leading zeros), most significant
\* first; a number of Len(I) decimal digits has at most 4 * Len(I) of them
int_bits(I) == drop_leading_zeros(low_bits(I, 4 * Len(I)).bits)

\* the bit before the binary point of 2 * 0.F
top_bit(F) == IF F # <<>> /\ F[1] >= 5 THEN 1 ELSE 0

\* the next n binary digits of the fraction 0.F and what is left of it
RECURSIVE frac_bits(_, _)
frac_bits(F, n) ==
    IF n = 0 THEN [bits |-> <<>>, rest |-> F]
    ELSE IF n = 1 THEN [bits |-> <<top_bit(F)>>, rest |-> twice(F)]
    ELSE The({The({[bits |-> a.bits \o b.bits, rest |-> b.rest] :
                   b \in {frac_bits(a.rest, n - n \div 2)}}) :
              a \in {frac_bits(F, n \div 2)}})

\* the zero bits in front of the first 1 of 0.F, counted up to limit, and
\* what is left of the fraction behind them
RECURSIVE leading_zero_bits(_, _)
leading_zero_bits(F, limit) ==
    IF limit = 0 \/ top_bit(F) = 1 THEN [zeros |-> 0, rest |-> F]
    ELSE IF limit = 1 THEN [zeros |-> 1, rest |-> twice(F)]
    ELSE The({IF a.zeros < limit \div 2 THEN a
              ELSE The({[zeros |-> a.zeros + b.zeros, rest |-> b.rest] :
                        b \in {leading_zero_bits(a.rest, limit - limit \div 2)}}) :
              a \in {leading_zero_bits(F, limit \div 2)}})

Double(sign, exponent, fraction) ==
    [ok |-> TRUE, sign |-> sign, exponent |-> exponent, fraction |-> fraction]

Inf(sign) == Double(sign, 2047, Repeat(0, 52))

Zero(sign) == Double(sign, 0, Repeat(0, 52))

NaN(sign) == Double(sign, 2047, <<1>> \o Repeat(0, 51))

ValueError == [ok |-> FALSE, sign |-> 0, exponent |-> 0, fraction |-> <<>>]

\* bits + 1, for bits that are not all 1
increment(bits) ==
    LET j == SetMax({i \in 1..Len(bits) : bits[i] = 0})
    IN  SubSeq([i \in 1..Len(bits) |-> IF i < j THEN bits[i] ELSE IF i = j THEN 1 ELSE 0],
               1, Len(bits))

\* Round to nearest, ties to even.  sig is the 53-bit significand (sig[1] is
\* the implicit bit, 0 for a subnormal), field the exponent field that goes
\* with sig[1] = 1, guard the first dropped bit, sticky whether a later
\* dropped bit is set.
round_half_even(sign, field, sig, guard, sticky) ==
    LET up     == guard = 1 /\ (sticky \/ sig[53] = 1)
        carry  == up /\ \A i \in 1..53 : sig[i] = 1
        sig2   == IF ~up THEN sig
                  ELSE IF carry THEN <<1>> \o Repeat(0, 52)
                  ELSE increment(sig)
        field2 == IF carry THEN field + 1 ELSE field
    IN  IF sig2[1] = 0 THEN Double(sign, 0, SubSeq(sig2, 2, 53))
        ELSE IF field2 >= 2047 THEN Inf(sign)
        ELSE Double(sign, field2, SubSeq(sig2, 2, 53))

\* a number with integer bits ib (ib[1] = 1) and decimal fraction 0.F
round_large(sign, ib, F) ==
    LET n == Len(ib)
    IN  The({The({round_half_even(sign, n + 1022, SubSeq(B, 1, 53), B[54],
                                  (\E i \in 55..Len(B) : B[i] = 1) \/ nonzero(fb.rest)) :
                  B \in {ib \o fb.bits}}) :
             fb \in {frac_bits(F, IF n < 54 THEN 54 - n ELSE 0)}})

\* a number 0.F below 1
round_small(sign, F) ==
    The({The({IF lead.zeros < 1022
              THEN round_half_even(sign, 1022 - lead.zeros, SubSeq(fb.bits, 1, 53),
                                   fb.bits[54], nonzero(fb.rest))
              ELSE round_half_even(sign, 1, <<0>> \o SubSeq(fb.bits, 1, 52),
                                   fb.bits[53], nonzero(fb.rest)) :
              fb \in {frac_bits(lead.rest, IF lead.zeros < 1022 THEN 54 ELSE 53)}}) :
         lead \in {leading_zero_bits(F, 1022)}})

\* the double nearest to 0.D * 10^P, for digits D with D[1] # 0 and
\* D[Len(D)] # 0.  10^309 is above every double and 10^-324 is below half
\* the smallest one.
to_double(sign, D, P) ==
    IF P > 309 THEN Inf(sign)
    ELSE IF P < -323 THEN Zero(sign)
    ELSE
    LET n  == Len(D)
        I  == IF P >= n THEN D \o Repeat(0, P - n)
              ELSE IF P <= 0 THEN <<>>
              ELSE SubSeq(D, 1, P)
        F  == IF P >= n THEN <<>>
              ELSE IF P <= 0 THEN Repeat(0, 0 - P) \o D
              ELSE SubSeq(D, P + 1, n)
    IN  The({IF Len(ib) > 1024 THEN Inf(sign)
             ELSE IF ib # <<>> THEN round_large(sign, ib, f)
             ELSE round_small(sign, f) :
             ib \in {int_bits(I)}, f \in {F}})

\* the decimal number with the digits mant (one optional point among them)
\* and the exponent digits edig
parse_number(sign, mant, eneg, edig, body_len) ==
    LET dots == {i \in 1..Len(mant) : mant[i] = Point}
        digs == SelectSeq(mant, IsDigit)
        vals == [i \in 1..Len(digs) |-> DigitVal(digs[i])]
        frac == IF dots = {} THEN 0 ELSE Len(mant) - SetMin(dots)
        ed   == drop_leading_zeros([i \in 1..Len(edig) |-> DigitVal(edig[i])])
        cap  == body_len + 400
        mag  == IF Len(ed) > 9 \/ DigitsToNat(ed) > cap THEN cap ELSE DigitsToNat(ed)
        e    == IF eneg THEN 0 - mag ELSE mag
        D    == drop_leading_zeros(vals)
    IN  IF \/ Cardinality(dots) > 1
           \/ digs = <<>>
           \/ Cardinality(dots) + Len(digs) # Len(mant)
        THEN ValueError
        ELSE IF D = <<>> THEN Zero(sign)
        ELSE The({to_double(sg, d, p) : sg \in {sign}, d \in {drop_trailing_zeros(D)},
                                        p \in {Len(D) - frac + e}})

\* position of the first e or E of the text low (Len(low) + 1 if none)
exponent_at(low) ==
    LET es == {i \in 1..Len(low) : low[i] = <<101>>[1]}
    IN  IF es = {} THEN Len(low) + 1 ELSE SetMin(es)

\* a decimal number whose exponent marker, if any, is body[p]
parse_decimal(sign, body, p) ==
    LET exp  == SubSeq(body, p + 1, Len(body))
        edig == IF exp # <<>> /\ exp[1] \in {PlusSign, MinusSign}
                THEN SubSeq(exp, 2, Len(exp)) ELSE exp
    IN  IF p <= Len(body) /\ (edig = <<>> \/ \E i \in 1..Len(edig) : ~IsDigit(edig[i]))
        THEN ValueError
        ELSE parse_number(sign, SubSeq(body, 1, p - 1), exp # <<>> /\ exp[1] = MinusSign,
                          edig, Len(body))

\* the text after the sign: inf, infinity, nan or a decimal number with an
\* optional exponent
parse_body(sign, body) ==
    The({IF low \in {<<105, 110, 102>>, <<105, 110, 102, 105, 110, 105, 116, 121>>} THEN Inf(sign)
         ELSE IF low = <<110, 97, 110>> THEN NaN(sign)
         ELSE The({parse_decimal(sign, body, p) : p \in {exponent_at(low)}}) :
         low \in {SubSeq([i \in 1..Len(body) |-> lower(body[i])], 1, Len(body))}})

\* the text between the white space, with its optional sign
parse_stripped(t) ==
    parse_body(IF t # <<>> /\ t[1] = MinusSign THEN 1 ELSE 0,
               IF t # <<>> /\ t[1] \in {PlusSign, MinusSign} THEN SubSeq(t, 2, Len(t)) ELSE t)

\* float_from_string_inner on the text without underscores
parse_float(u) ==
    The({parse_stripped(t) : t \in {strip_set(u, AsciiSpace)}})

float(s) ==
    The({IF underscores_ok(t)
         THEN The({parse_float(u) : u \in {without_underscores(t)}})
         ELSE ValueError :
         t \in {TransformDecimalAndSpaceToASCII(s)}})

\* x == 0 on doubles: +0.0 and -0.0
is_zero(x) == x.exponent = 0 /\ ~nonzero(x.fraction)

(***************************************************************************)
(* The CSV rows.  csv.DictReader gives a dict from header name to cell; a  *)
(* cell is a string, or None when the row is shorter than the header       *)
(* (restval), and a column the header lacks is no key of the dict.         *)
(***************************************************************************)
\* the header names the script reads
col_name         == <<21517, 31216>>
col_lat          == <<32239, 24230>>
col_lon          == <<32076, 24230>>
col_description  == <<35500, 26126>>
col_start_time   == <<38283, 22987, 26178, 38291>>
col_end_time     == <<32066, 20102, 26178, 38291>>
col_time_note    == <<21033, 29992, 21487, 33021, 26085, 26178, 29305, 35352, 20107, 38917>>
col_price_basic  == <<26009, 37329, 65288, 22522, 26412, 65289>>
col_price_detail == <<26009, 37329, 65288, 35443, 32048, 65289>>

Columns == {col_name, col_lat, col_lon, col_description, col_start_time,
            col_end_time, col_time_note, col_price_basic, col_price_detail}

NoKey == [tag |-> "nokey", s |-> <<>>]
None == [tag |-> "None", s |-> <<>>]
Str(s) == [tag |-> "str", s |-> s]

\* row.get(key, ''): the default only when the key is missing
row_get(r, key) == IF r[key].tag = "nokey" THEN Str(<<>>) ELSE r[key]

\* row.get(key, '').strip() raises AttributeError on None
strip_raises(r, keys) == \E k \in keys : row_get(r, k).tag = "None"

\* sentaa (centre), chuushajou (car park), chuurinjou (bicycle park),
\* hoteru (hotel), yado (inn), saabisu (service), in (inn), kyuukanchuu
\* (closed), kouryuukan (exchange hall), infomeeshon (information),
\* ryokan, hooru (hall), puuru (pool), takushii (taxi)
exclude_keywords == <<
    <<12475, 12531, 12479, 12540>>, <<39376, 36554, 22580>>, <<39376, 36650, 22580>>,
    <<12507, 12486, 12523>>, <<23487>>, <<12469, 12540, 12499, 12473>>,
    <<12452, 12531>>, <<20241, 39208, 20013>>, <<20132, 27969, 39208>>,
    <<12452, 12531, 12501, 12457, 12513, 12540, 12471, 12519, 12531>>, <<26053, 39208>>,
    <<12507, 12540, 12523>>, <<12503, 12540, 12523>>, <<12479, 12463, 12471, 12540>> >>

\* mutant: the name is compared with the keywords instead of searched for them
is_excluded_exact(name) ==
    \E k \in 1..Len(exclude_keywords) : exclude_keywords[k] = name

\* any(keyword in name for keyword in exclude_keywords)
is_excluded(name) ==
    \E k \in 1..Len(exclude_keywords) : str_in(exclude_keywords[k], name)

\* not name or not lat_str or not lon_str
is_missing(name, lat_str, lon_str) ==
    name = <<>> \/ lat_str = <<>> \/ lon_str = <<>>

\* lat == 0 or lon == 0
is_zero_coord(lat, lon) == is_zero(lat) \/ is_zero(lon)

DescriptionLimit == 150

\* mutant: the slice is forgotten
description_field_unsliced(text) == strip(text)

\* row.get(col_description, '').strip()[:150]
description_field(text) == slice_to(strip(text), DescriptionLimit)

\* "no kankou supotto" (a sightseeing spot of ...)
FallbackSuffix == <<12398, 35251, 20809, 12473, 12509, 12483, 12488>>

\* description if description else f'{name}' + FallbackSuffix
description_of(description, name) ==
    IF description # <<>> THEN description ELSE name \o FallbackSuffix

\* f'spot-{spot_id}'
id_of(n) == <<115, 112, 111, 116, 45>> \o int_to_str(n)

\* the separator U+FF5E of f'{start_time}~{end_time}'
WaveDash == <<65374>>

\* mutant: the note is tested first
opening_hours_note_first(start_time, end_time, time_note) ==
    IF time_note # <<>> THEN time_note
    ELSE IF start_time # <<>> /\ end_time # <<>> THEN start_time \o WaveDash \o end_time
    ELSE <<>>

\* opening_hours: start/end when both are set, else the note, else ''
opening_hours_of(start_time, end_time, time_note) ==
    IF start_time # <<>> /\ end_time # <<>> THEN start_time \o WaveDash \o end_time
    ELSE IF time_note # <<>> THEN time_note
    ELSE <<>>

\* mutant: the basic field is tested first
price_basic_first(price_detail, price_basic) ==
    IF price_basic # <<>> THEN price_basic
    ELSE IF price_detail # <<>> THEN price_detail
    ELSE <<>>

\* price: the detailed field, else the basic field, else '' (no key is set)
price_of(price_detail, price_basic) ==
    IF price_detail # <<>> THEN price_detail
    ELSE IF price_basic # <<>> THEN price_basic
    ELSE <<>>

\* the float object float() returned
Number(f) == [sign |-> f.sign, exponent |-> f.exponent, fraction |-> f.fraction]

\* The part of the loop body that reads row r (lines 24-49 and 66-79): how
\* the row leaves the body and, when it reaches line 52, the values the spot
\* is built from.  "AttributeError" is not caught by the except clause.
row_fields(r) ==
    IF strip_raises(r, {col_name, col_lat, col_lon, col_description})
    THEN [kind |-> "AttributeError"]
    ELSE
    LET name        == strip(row_get(r, col_name).s)
        lat_str     == strip(row_get(r, col_lat).s)
        lon_str     == strip(row_get(r, col_lon).s)
        description == description_field(row_get(r, col_description).s)
    IN
    IF is_excluded(name) THEN [kind |-> "continue"]
    ELSE IF strip_raises(r, {col_start_time, col_end_time, col_time_note,
                             col_price_basic, col_price_detail})
    THEN [kind |-> "AttributeError"]
    ELSE
    LET start_time   == strip(row_get(r, col_start_time).s)
        end_time     == strip(row_get(r, col_end_time).s)
        time_note    == strip(row_get(r, col_time_note).s)
        price_basic  == strip(row_get(r, col_price_basic).s)
        price_detail == strip(row_get(r, col_price_detail).s)
        lat          == float(lat_str)
        lon          == float(lon_str)
    IN
    IF is_missing(name, lat_str, lon_str) THEN [kind |-> "continue"]
    ELSE IF ~lat.ok \/ ~lon.ok THEN [kind |-> "ValueError"]
    ELSE IF is_zero_coord(lat, lon) THEN [kind |-> "continue"]
    ELSE [kind |-> "append",
          name |-> name,
          description |-> description_of(description, name),
          lat |-> Number(lat),
          lon |-> Number(lon),
          opening_hours |-> opening_hours_of(start_time, end_time, time_note),
          price |-> price_of(price_detail, price_basic)]

\* the spot dict; openingHours and price are keys only when non-empty
make_spot(id, congestion_level, f) ==
    LET base == [id |-> id_of(id),
                 name |-> f.name,
                 description |-> f.description,
                 congestionLevel |-> congestion_level,
                 location |-> [latitude |-> f.lat, longitude |-> f.lon]]
        with_hours == IF f.opening_hours # <<>>
                      THEN base @@ ("openingHours" :> f.opening_hours) ELSE base
    IN  IF f.price # <<>> THEN with_hours @@ ("price" :> f.price) ELSE with_hours

\* spots.append(spot), reached only by a row that passed every check
spots_after(list, id, congestion_level, f) ==
    IF f.kind = "append" THEN Append(list, make_spot(id, congestion_level, f)) ELSE list

\* mutant: the increment sits outside the accepted path
spot_id_after_every_row(id, f) == id + 1

\* spot_id += 1, on the same path
spot_id_after(id, f) == IF f.kind = "append" THEN id + 1 ELSE id

\* where the script is after the iteration
pc_after(f) == IF f.kind = "AttributeError" THEN "crashed" ELSE "loop"

\* random.randint(1, 5)
CongestionLevels == 1..5

(***************************************************************************)
(* Input rows.                                                             *)
(***************************************************************************)
EmptyRow == [k \in Columns |-> NoKey]

NameCells ==
    { NoKey, None,
      Str(<<32, 9>>),
      Str(<<28165, 27700, 23546>>),
      Str(<<9, 37329, 38307, 23546, 32>>),
      Str(<<20140, 37117, 12507, 12486, 12523>>),
      Str(<<12527, 12452, 12531, 39208>>) }

LatCells ==
    { NoKey, None,
      Str(<<32>>),
      Str(<<45, 48, 46, 48>>),
      Str(<<97, 98, 99>>),
      Str(<<32, 51, 53, 46, 48, 51, 57, 52, 48>>) }

LonCells ==
    { None,
      Str(<<>>),
      Str(<<48, 46>>),
      Str(<<49, 51, 53, 46, 46, 55>>),
      Str(<<49, 51, 53, 46, 55, 56, 53>>),
      Str(<<43, 49, 51, 53, 46, 55, 50, 57, 50>>) }

\* rows of a file whose header has the name and coordinate columns only
CoordRows ==
    { [EmptyRow EXCEPT ![col_name] = n, ![col_lat] = la, ![col_lon] = lo] :
        n \in NameCells, la \in LatCells, lo \in LonCells }

\* rows cut short before the last column of the header
ShortRows ==
    { [EmptyRow EXCEPT ![col_name] = n, ![col_lat] = la, ![col_lon] = lo,
                       ![col_price_detail] = None] :
        n \in {Str(<<28165, 27700, 23546>>), Str(<<20140, 37117, 12507, 12486, 12523>>)},
        la \in {Str(<<32>>), Str(<<97, 98, 99>>), Str(<<32, 51, 53, 46, 48, 51, 57, 52, 48>>)},
        lo \in {Str(<<48, 46>>), Str(<<49, 51, 53, 46, 55, 56, 53>>)} }

\* coordinate texts in the other notations float() reads: nan and infinity,
\* full-width digits, an exponent, underscores between digits, and values
\* that are zero as a double
FloatCells ==
    { <<<<110, 97, 110>>, <<49, 51, 53, 46, 55, 56, 53>>>>,
      <<<<65299, 65301, 46, 65296, 65299, 65305, 65300>>, <<45, 73, 110, 102, 105, 110, 105, 116, 121>>>>,
      <<<<51, 46, 53, 48, 51, 95, 57, 52, 69, 43, 49>>, <<49, 95, 51, 53, 46, 55, 56, 53>>>>,
      <<<<49, 101, 45, 52, 48, 48>>, <<49, 51, 53, 46, 55, 56, 53>>>>,
      <<<<51, 53, 46, 48, 51, 57, 52>>, <<45, 48, 101, 53>>>>,
      <<<<51, 53, 46, 48, 51, 57, 52>>, <<49, 95>>>>,
      <<<<65299, 65301, 65294, 65296>>, <<49, 51, 53, 46, 55, 56, 53>>>>,
      <<<<51, 53, 101>>, <<105, 110, 102>>>> }

FloatRows ==
    { [EmptyRow EXCEPT ![col_name] = Str(<<28165, 27700, 23546>>),
                       ![col_lat] = Str(c[1]), ![col_lon] = Str(c[2])] : c \in FloatCells }

LoopRows == CoordRows \cup ShortRows \cup FloatRows

\* a row that passes every check, the other columns left to vary
BaseRow ==
    [EmptyRow EXCEPT ![col_name] = Str(<<28165, 27700, 23546>>),
                     ![col_lat] = Str(<<51, 52, 46, 57, 57, 52, 57>>),
                     ![col_lon] = Str(<<49, 51, 53, 46, 55, 56, 53>>)]

FillChar == <<12354>>[1]

DescriptionCells ==
    { NoKey,
      Str(<<32, 9, 32>>),
      Str(<<32, 19990, 30028, 36986, 29987, 10>>),
      Str(Repeat(FillChar, DescriptionLimit)),
      Str(<<32>> \o Repeat(FillChar, DescriptionLimit - 1) \o <<12356, 12358, 12360, 32>>),
      Str(Repeat(FillChar, DescriptionLimit - 1) \o <<32, 12356>>) }

StartCells == { Str(<<32>>), Str(<<32, 57, 58, 48, 48>>) }
EndCells == { Str(<<>>), Str(<<49, 55, 58, 48, 48, 32>>) }
NoteCells == { NoKey, Str(<<24180, 20013, 28961, 20241, 32>>) }

PriceBasicCells == { NoKey, Str(<<52, 48, 48, 20870>>) }
PriceDetailCells == { Str(<<9>>), Str(<<32, 22823, 20154, 52, 48, 48, 20870>>) }

FieldRows ==
    { [BaseRow EXCEPT ![col_description] = d] : d \in DescriptionCells }
    \cup
    { [BaseRow EXCEPT ![col_start_time] = st, ![col_end_time] = en, ![col_time_note] = no] :
        st \in StartCells, en \in EndCells, no \in NoteCells }
    \cup
    { [BaseRow EXCEPT ![col_price_basic] = pb, ![col_price_detail] = pd] :
        pb \in PriceBasicCells, pd \in PriceDetailCells }
    \cup
    { [BaseRow EXCEPT ![col_lat] = la, ![col_description] = Str(<<19990, 30028, 36986, 29987>>),
                      ![col_time_note] = Str(<<24180, 20013, 28961, 20241>>),
                      ![col_price_basic] = Str(<<52, 48, 48, 20870>>)] :
        la \in {Str(<<48>>), Str(<<97, 98, 99>>)} }

\* The places the emitted module is exercised on: Kyoto tower, Kiyomizu-dera
\* and Kinkaku-ji, and a row whose latitude is nan
NearbyRows ==
    { [EmptyRow EXCEPT ![col_name] = Str(<<20140, 37117, 12479, 12527, 12540>>),
                       ![col_lat] = Str(<<51, 52, 46, 57, 56, 53, 56>>), ![col_lon] = Str(<<49, 51, 53, 46, 55, 53, 56, 56>>)],
      [EmptyRow EXCEPT ![col_name] = Str(<<28165, 27700, 23546>>),
                       ![col_lat] = Str(<<51, 52, 46, 57, 57, 52, 57>>), ![col_lon] = Str(<<49, 51, 53, 46, 55, 56, 53>>)],
      [EmptyRow EXCEPT ![col_name] = Str(<<37329, 38307, 23546>>),
                       ![col_lat] = Str(<<51, 53, 46, 48, 51, 57, 52>>), ![col_lon] = Str(<<49, 51, 53, 46, 55, 50, 57, 50>>)],
      [EmptyRow EXCEPT ![col_name] = Str(<<20239, 35211, 31282, 33655, 22823, 31038>>),
                       ![col_lat] = Str(<<110, 97, 110>>), ![col_lon] = Str(<<49, 51, 53, 46, 55, 55, 50, 55>>)] }

\* the coordinates of the first three places
GridTexts == <<
    <<<<51, 52, 46, 57, 56, 53, 56>>, <<49, 51, 53, 46, 55, 53, 56, 56>>>>,
    <<<<51, 52, 46, 57, 57, 52, 57>>, <<49, 51, 53, 46, 55, 56, 53>>>>,
    <<<<51, 53, 46, 48, 51, 57, 52>>, <<49, 51, 53, 46, 55, 50, 57, 50>>>> >>

location_of(texts) ==
    [latitude |-> Number(float(texts[1])), longitude |-> Number(float(texts[2]))]

GridPoints == SubSeq([i \in 1..Len(GridTexts) |-> location_of(GridTexts[i])], 1, Len(GridTexts))

\* row_fields of every input row, evaluated once
fields_of == [r \in LoopRows \cup FieldRows \cup NearbyRows |-> row_fields(r)]

\* random.randint(1, 5) is drawn only when the row reaches line 52
congestion_draws(r) ==
    IF fields_of[r].kind = "append" THEN CongestionLevels ELSE {1}

(***************************************************************************)
(* The script.                                                             *)
(***************************************************************************)
NoLoc == [latitude |-> Number(ValueError), longitude |-> Number(ValueError)]

Init ==
    /\ pc = "loop"
    /\ n_read = 0
    /\ row = EmptyRow
    /\ spots = <<>>
    /\ spot_id = 1
    /\ KYOTO_SPOTS = <<>>
    /\ called = FALSE
    /\ currentLoc = NoLoc
    /\ radiusKm = 0
    /\ result = <<>>

\* for row in reader: try: ... except (ValueError, KeyError): continue
ProcessRow(r, congestion_level) ==
    /\ pc = "loop"
    /\ n_read < MaxRows
    /\ spots' = spots_after(spots, spot_id, congestion_level, fields_of[r])
    /\ spot_id' = spot_id_after(spot_id, fields_of[r])
    /\ pc' = pc_after(fields_of[r])
    /\ row' = r
    /\ n_read' = n_read + 1
    /\ UNCHANGED <<KYOTO_SPOTS, called, currentLoc, radiusKm, result>>

\* the reader is exhausted: render ts_content and write the output file;
\* json.dumps(spots) becomes the array literal bound to KYOTO_SPOTS
WriteOutput ==
    /\ pc = "loop"
    /\ KYOTO_SPOTS' = spots
    /\ pc' = "done"
    /\ UNCHANGED <<n_read, row, spots, spot_id, called, currentLoc, radiusKm, result>>

Loop == \E r \in LoopRows : \E c \in congestion_draws(r) : ProcessRow(r, c)

Next == Loop \/ WriteOutput

\* the loop over rows that differ in name and coordinates
Spec == Init /\ [][Next]_vars

LoopFields == \E r \in FieldRows : \E c \in congestion_draws(r) : ProcessRow(r, c)

NextFields == LoopFields \/ WriteOutput

\* the loop over rows that differ in description, hours and price
SpecFields == Init /\ [][NextFields]_vars

(***************************************************************************)
(* The emitted TypeScript module.                                          *)
(***************************************************************************)
\* Distances between the grid points, in metres rounded up: the values the
\* emitted Haversine formula (R = 6371) gives in IEEE doubles.  A radius that
\* is a whole number of metres compares with the rounded distance exactly as
\* it compares with the double.
DistanceTable == <<
    <<   0, 2593, 6542>>,
    <<2593,    0, 7093>>,
    <<6542, 7093,    0>> >>

grid_index(lat, lon) ==
    CHOOSE i \in 1..Len(GridPoints) : GridPoints[i] = [latitude |-> lat, longitude |-> lon]

\* Number.isFinite
is_finite(x) == x.exponent < 2047

\* A distance is a number of metres, or NaN: Math.sin of an infinite angle is
\* NaN and NaN goes through every operation, so the formula gives NaN as
\* soon as one coordinate is NaN or infinite.
getDistanceFromLatLonInKm(lat1, lon1, lat2, lon2) ==
    IF is_finite(lat1) /\ is_finite(lon1) /\ is_finite(lat2) /\ is_finite(lon2)
    THEN [nan |-> FALSE, metres |-> DistanceTable[grid_index(lat1, lon1)][grid_index(lat2, lon2)]]
    ELSE [nan |-> TRUE, metres |-> 0]

\* a <= b on a distance and a radius: every comparison with NaN is false
less_equal(dist, radius) == ~dist.nan /\ dist.metres <= radius

\* mutant: `<` in place of `<=`
within_radius_strict(spot, loc, radius) ==
    LET dist == getDistanceFromLatLonInKm(loc.latitude, loc.longitude,
                                          spot.location.latitude, spot.location.longitude)
    IN  ~dist.nan /\ dist.metres < radius

\* the filter callback: dist <= radiusKm
within_radius(spot, loc, radius) ==
    less_equal(getDistanceFromLatLonInKm(loc.latitude, loc.longitude,
                                         spot.location.latitude, spot.location.longitude),
               radius)

\* the sort callback
compare(a, b) == a.congestionLevel - b.congestionLevel

\* Arrays live in a heap (a sequence of arrays, a reference is an index), so
\* that copying and sorting in place are told apart.
KyotoRef == 1

\* KYOTO_SPOTS.filter(...): allocates a new array, the source is not touched
filter_within(heap, ref, loc, radius) ==
    [heap |-> Append(heap, SelectSeq(heap[ref], LAMBDA spot : within_radius(spot, loc, radius))),
     ref  |-> Len(heap) + 1]

\* insertion of x behind every element that does not compare greater
insert_sorted(a, x) ==
    LET k == Cardinality({i \in 1..Len(a) : compare(a[i], x) <= 0})
    IN  SubSeq(a, 1, k) \o <<x>> \o SubSeq(a, k + 1, Len(a))

RECURSIVE stable_sort(_)
stable_sort(a) ==
    IF a = <<>> THEN <<>>
    ELSE insert_sorted(stable_sort(SubSeq(a, 1, Len(a) - 1)), a[Len(a)])

\* Array.prototype.sort: sorts the array in place (stable) and returns it
array_sort(heap, ref) ==
    [heap |-> [heap EXCEPT ![ref] = stable_sort(heap[ref])], ref |-> ref]

\* mutant: KYOTO_SPOTS.sort(...).filter(...), the sort applied to the constant
findNearbySpots_sort_first(heap, loc, radius) ==
    LET sorted == array_sort(heap, KyotoRef)
    IN  filter_within(sorted.heap, sorted.ref, loc, radius)

\* findNearbySpots on the heap: the heap after the call and the array returned
findNearbySpots(heap, loc, radius) ==
    LET filteredSpots == filter_within(heap, KyotoRef, loc, radius)
    IN  array_sort(filteredSpots.heap, filteredSpots.ref)

\* radiusKm: number = 5, in metres
DefaultRadiusKm == 5000

CallLocs == {GridPoints[1], GridPoints[3]}

Radii == {0, 2592, 2593, DefaultRadiusKm}

MaxSpots == 3

\* the loop of the script run on the rows rs with the random draws cs
RECURSIVE run_loop(_, _)
run_loop(rs, cs) ==
    IF rs = <<>> THEN [spots |-> <<>>, spot_id |-> 1]
    ELSE LET n    == Len(rs)
             prev == run_loop(SubSeq(rs, 1, n - 1), SubSeq(cs, 1, n - 1))
         IN  [spots   |-> spots_after(prev.spots, prev.spot_id, cs[n], fields_of[rs[n]]),
              spot_id |-> spot_id_after(prev.spot_id, fields_of[rs[n]])]

\* the module as generated from up to MaxSpots rows of distinct places
InitNearby ==
    \E n \in 0..MaxSpots :
        \E rs \in [1..n -> NearbyRows], cs \in [1..n -> CongestionLevels] :
            /\ \A i, j \in 1..n : rs[i] = rs[j] => i = j
            /\ pc = "done"
            /\ n_read = n
            /\ row = IF n = 0 THEN EmptyRow ELSE rs[n]
            /\ spots = run_loop(rs, cs).spots
            /\ spot_id = run_loop(rs, cs).spot_id
            /\ KYOTO_SPOTS = spots
            /\ called = FALSE
            /\ currentLoc = NoLoc
            /\ radiusKm = 0
            /\ result = <<>>

\* a caller invokes findNearbySpots(loc, radius)
FindNearbySpots(loc, radius) ==
    /\ pc = "done"
    /\ LET ret == findNearbySpots(<<KYOTO_SPOTS>>, loc, radius)
       IN  /\ KYOTO_SPOTS' = ret.heap[KyotoRef]
           /\ result' = ret.heap[ret.ref]
    /\ called' = TRUE
    /\ currentLoc' = loc
    /\ radiusKm' = radius
    /\ UNCHANGED <<pc, n_read, row, spots, spot_id>>

NextNearby == \E loc \in CallLocs, radius \in Radii : FindNearbySpots(loc, radius)

SpecNearby == InitNearby /\ [][NextNearby]_vars

(***************************************************************************)
(* Properties.                                                             *)
(***************************************************************************)
\* the step is one iteration of the row loop; row' is the row it processed
RowStep == n_read' = n_read + 1

\* the iteration appended a spot
Appended == RowStep /\ Len(spots') = Len(spots) + 1

\* the stripped text of a cell that is a string or a missing key
TextOf(r, col) == strip(row_get(r, col).s)

HasKeyword(text) ==
    \E k \in 1..Len(exclude_keywords) : str_in(exclude_keywords[k], text)

LastSpot(list) == list[Len(list)]

\* C1: no spot of the list has a name containing an excluded keyword, and a
\* row whose stripped name contains one leaves the list and the id counter
\* as they were, whatever its other cells are.
C1_ExcludedNamesDropped ==
    /\ [](\A i \in 1..Len(spots) : ~HasKeyword(spots[i].name))
    /\ [][(RowStep /\ row'[col_name].tag = "str" /\ HasKeyword(strip(row'[col_name].s)))
            => (spots' = spots /\ spot_id' = spot_id)]_vars

\* a row with an excluded name and valid coordinates was dropped after a spot
\* had been accepted
C1_Witness ==
    /\ n_read = 2 /\ Len(spots) = 1 /\ spot_id = 2 /\ pc = "loop"
    /\ row[col_name] = Str(<<12527, 12452, 12531, 39208>>)
    /\ row[col_lat] = Str(<<32, 51, 53, 46, 48, 51, 57, 52, 48>>)
    /\ row[col_lon] = Str(<<49, 51, 53, 46, 55, 56, 53>>)

\* the coordinate texts of the input rows, and float() of each
CoordTexts ==
    { strip(r[c].s) : r \in LoopRows \cup FieldRows \cup NearbyRows, c \in {col_lat, col_lon} }

Parsed == [s \in CoordTexts |-> float(s)]

\* a coordinate cell that is absent, empty after stripping, or equal to 0
CoordMissingOrZero(cell) ==
    \/ cell.tag \in {"nokey", "None"}
    \/ strip(cell.s) = <<>>
    \/ Parsed[strip(cell.s)].ok /\ is_zero(Parsed[strip(cell.s)])

\* C2: a row whose latitude or longitude is absent, empty or zero produces
\* no spot, and the loop goes on (the script does not stop before writing).
C2_MissingCoordinatesDropped ==
    [][(RowStep /\ (CoordMissingOrZero(row'[col_lat]) \/ CoordMissingOrZero(row'[col_lon])))
        => (spots' = spots /\ pc' = "loop")]_vars

\* a float that is a number: not NaN (exponent all ones, fraction not zero)
IsNumber(x) == ~(x.exponent = 2047 /\ nonzero(x.fraction))

\* C3: every spot of the list has a non-empty name, a latitude and a
\* longitude that are numbers other than 0, and a congestion level in 1..5.
C3_SpotsWellFormed ==
    \A i \in 1..Len(spots) :
        /\ spots[i].name # <<>>
        /\ IsNumber(spots[i].location.latitude) /\ ~is_zero(spots[i].location.latitude)
        /\ IsNumber(spots[i].location.longitude) /\ ~is_zero(spots[i].location.longitude)
        /\ spots[i].congestionLevel \in 1..5

\* C4: the description of an accepted row is the first 150 characters of the
\* stripped source description when that is non-empty, otherwise the name
\* followed by the fallback suffix; it is never empty.
C4_DescriptionTruncatedOrFallback ==
    [][Appended =>
        LET src  == TextOf(row', col_description)
            spot == LastSpot(spots')
            want == IF Len(src) < 150 THEN Len(src) ELSE 150
        IN  /\ spot.description # <<>>
            /\ Len(spot.description) <= 150 \/ src = <<>>
            /\ src # <<>> => spot.description = SubSeq(src, 1, want)
            /\ src = <<>> => spot.description = spot.name \o FallbackSuffix]_vars

\* a description of more than 150 characters was cut to 150
C4_Witness ==
    /\ n_read = 2 /\ Len(spots) = 2
    /\ Len(TextOf(row, col_description)) = 152
    /\ Len(spots[2].description) = 150
    /\ spots[1].description = spots[1].name \o FallbackSuffix

\* C5: openingHours of an accepted row is start~end when both are non-empty,
\* even with a note; the note when start or end is empty and the note is
\* not; and no key at all otherwise (never an empty string).
C5_OpeningHoursPreferStartEnd ==
    [][Appended =>
        LET st   == TextOf(row', col_start_time)
            en   == TextOf(row', col_end_time)
            no   == TextOf(row', col_time_note)
            both == st # <<>> /\ en # <<>>
            spot == LastSpot(spots')
            has  == "openingHours" \in DOMAIN spot
        IN  /\ both => has /\ spot.openingHours = st \o WaveDash \o en
            /\ (~both /\ no # <<>>) => has /\ spot.openingHours = no
            /\ (~both /\ no = <<>>) => ~has
            /\ has => spot.openingHours # <<>>]_vars

\* start, end and a note were all given and the start~end text was emitted
C5_Witness ==
    /\ n_read >= 1 /\ Len(spots) = n_read
    /\ TextOf(row, col_start_time) # <<>>
    /\ TextOf(row, col_end_time) # <<>>
    /\ TextOf(row, col_time_note) # <<>>
    /\ "openingHours" \in DOMAIN LastSpot(spots)
    /\ LastSpot(spots).openingHours = <<57, 58, 48, 48, 65374, 49, 55, 58, 48, 48>>

\* C6: price of an accepted row is the stripped detailed price when it is
\* non-empty, else the stripped basic price when that is non-empty, and no
\* key at all when both are empty.
C6_PricePrefersDetail ==
    [][Appended =>
        LET pd   == TextOf(row', col_price_detail)
            pb   == TextOf(row', col_price_basic)
            spot == LastSpot(spots')
            has  == "price" \in DOMAIN spot
        IN  /\ pd # <<>> => has /\ spot.price = pd
            /\ (pd = <<>> /\ pb # <<>>) => has /\ spot.price = pb
            /\ (pd = <<>> /\ pb = <<>>) => ~has]_vars

\* both prices were given and the detailed one was emitted
C6_Witness ==
    /\ n_read >= 1 /\ Len(spots) = n_read
    /\ TextOf(row, col_price_basic) # <<>>
    /\ TextOf(row, col_price_detail) # <<>>
    /\ "price" \in DOMAIN LastSpot(spots)
    /\ LastSpot(spots).price = <<22823, 20154, 52, 48, 48, 20870>>

DistanceTo(spot) ==
    getDistanceFromLatLonInKm(currentLoc.latitude, currentLoc.longitude,
                              spot.location.latitude, spot.location.longitude)

\* the index in KYOTO_SPOTS of the spot with this id
PositionOf(spot) == CHOOSE i \in 1..Len(KYOTO_SPOTS) : KYOTO_SPOTS[i].id = spot.id

\* the distance of the spot is a number and at most the radius of the call
InRadius(spot) == ~DistanceTo(spot).nan /\ DistanceTo(spot).metres <= radiusKm

\* C7: findNearbySpots returns exactly the spots of KYOTO_SPOTS at a distance
\* <= radiusKm (the boundary included), each once, in ascending congestion
\* level, equal levels in their KYOTO_SPOTS order.
C7_NearbyFilteredAndStablySorted ==
    called =>
        /\ \A i \in 1..Len(KYOTO_SPOTS) :
              InRadius(KYOTO_SPOTS[i])
                  <=> (\E j \in 1..Len(result) : result[j] = KYOTO_SPOTS[i])
        /\ \A j \in 1..Len(result) : \E i \in 1..Len(KYOTO_SPOTS) : result[j] = KYOTO_SPOTS[i]
        /\ \A j, k \in 1..Len(result) : j < k =>
              /\ result[j].id # result[k].id
              /\ result[j].congestionLevel <= result[k].congestionLevel
              /\ result[j].congestionLevel = result[k].congestionLevel
                    => PositionOf(result[j]) < PositionOf(result[k])

\* a call that drops a spot outside the radius, keeps one exactly on the
\* boundary and returns the two kept spots in the reverse of their order
C7_Witness ==
    /\ called /\ Len(KYOTO_SPOTS) = 3 /\ Len(result) = 2
    /\ \E i \in 1..Len(KYOTO_SPOTS) :
          ~DistanceTo(KYOTO_SPOTS[i]).nan /\ DistanceTo(KYOTO_SPOTS[i]).metres > radiusKm
    /\ \E j \in 1..Len(result) : DistanceTo(result[j]).metres = radiusKm /\ radiusKm > 0
    /\ result[1].congestionLevel < result[2].congestionLevel
    /\ PositionOf(result[2]) < PositionOf(result[1])

\* C8: the k-th spot has id 'spot-k', the id counter is the number of spots
\* plus one, every iteration either leaves the list and the counter alone or
\* appends the spot of its row at the end, so ids are gap-free and follow
\* the input order.
C8_SequentialIds ==
    /\ [](/\ spot_id = Len(spots) + 1
          /\ \A k \in 1..Len(spots) : spots[k].id = <<115, 112, 111, 116, 45>> \o <<48 + k>>)
    /\ [][RowStep =>
            \/ spots' = spots /\ spot_id' = spot_id
            \/ /\ spots' = Append(spots, LastSpot(spots'))
               /\ LastSpot(spots').name = TextOf(row', col_name)
               /\ spot_id' = spot_id + 1]_vars

\* a dropped row followed by an accepted one: the accepted spot is spot-1
C8_Witness ==
    /\ n_read = 2 /\ Len(spots) = 1 /\ spot_id = 2
    /\ spots[1].id = <<115, 112, 111, 116, 45, 49>>
    /\ spots[1].name = TextOf(row, col_name)

\* C9: a call of findNearbySpots leaves KYOTO_SPOTS as it was, content and
\* order, and a call with the arguments of the previous call returns what
\* the previous call returned.
C9_KyotoSpotsUnchanged ==
    [][/\ KYOTO_SPOTS' = KYOTO_SPOTS
       /\ (called /\ currentLoc' = currentLoc /\ radiusKm' = radiusKm) => result' = result]_vars

\* a call returned the spots in another order than KYOTO_SPOTS holds them
C9_Witness ==
    /\ called /\ Len(result) >= 2
    /\ PositionOf(result[2]) < PositionOf(result[1])
    /\ KYOTO_SPOTS = spots

HasText(cell) == cell.tag = "str" /\ strip(cell.s) # <<>>

Unparseable(cell) == HasText(cell) /\ ~Parsed[strip(cell.s)].ok

\* C10: a row with a non-empty name and non-empty coordinate texts of which
\* one is no number is skipped: list and id counter stay as they were and
\* the loop goes on with the following rows.
C10_UnparseableRowSkipped ==
    [][(/\ RowStep
        /\ HasText(row'[col_name]) /\ HasText(row'[col_lat]) /\ HasText(row'[col_lon])
        /\ Unparseable(row'[col_lat]) \/ Unparseable(row'[col_lon]))
        => (spots' = spots /\ spot_id' = spot_id /\ pc' = "loop")]_vars
====
